---- MODULE Spec2Model ----
(***************************************************************************)
(* Model of InetMVpnTable (src/bgp/inetmvpn/inetmvpn_table.cc): the        *)
(* multicast-VPN route table of the BGP daemon.  The state is one table     *)
(* ("this"): its routing instance, its tree manager, and its routes with    *)
(* their path lists.  The operations are RouteReplicate, Export,            *)
(* CreateTreeManager, DestroyTreeManager and set_routing_instance.          *)
(***************************************************************************)
EXTENDS Integers, Sequences, FiniteSets, TLC

VARIABLES
    rtinstance,    \* BgpTable::rtinstance_: NULL until set_routing_instance
    tree_manager,  \* InetMVpnTable::tree_manager_: nullptr or the manager object
    routes,        \* the table's partitions: prefix -> route object or NoRoute
    fault,         \* "none", or how the process died ("assert", "segv")
    call,          \* the last operation called, its arguments and its results
    inflight       \* the Export call past its manager check, or NoExport

vars == <<rtinstance, tree_manager, routes, fault, call, inflight>>

(***************************************************************************)
(* Bounds and input domains                                                *)
(***************************************************************************)
\* Most paths the table holds at once, over all its routes.
MaxPaths == 2

NULL == "NULL"

\* Routing instances; "master" is the default routing instance.
Instances == {"master", "blue"}

\* Tables a route can be replicated from: the inetmvpn table of each routing
\* instance, and a table of another address family.
SrcTables == {"master", "blue", "inet"}

Family(t) == IF t = "inet" THEN "INET" ELSE "INETMVPN"

null_rd == "0:0"
\* Source RDs that path attributes carry.
SourceRDs == {"10.1.1.1:1"}
RDs == {null_rd, "10.1.1.2:2"} \cup SourceRDs
Groups == {"224.1.1.1"}
SrcAddrs == {"9.8.7.6"}
RouteTypes == {"NativeRoute", "LocalTreeRoute"}

Prefixes == [rd : RDs, source : SrcAddrs, group : Groups, type : RouteTypes]

\* Prefixes of the routes a source table holds: a VPN table keys its routes
\* with the null RD, the default table with a real one.
SrcPrefixes(t) ==
    {p \in Prefixes : IF t = "master" THEN p.rd = "10.1.1.2:2" ELSE p.rd = null_rd}

Peers == {"peerA", "peerB"}
PathIds == {0}
PathSources == {"BGP_XMPP", "Local"}
ExtCommunities == {"C1", "C2"}

\* Attributes of source paths (BgpAttr): the fields the table reads or rewrites.
SrcAttrs == [source_rd : SourceRDs, ext_community : {"target:1"}]

\* Source paths (BgpPath of the source route).
SrcPaths == [peer : Peers, path_id : PathIds, source : PathSources,
             attr : SrcAttrs, flags : {0}, label : {0}]

IsDefaultInstance(i) == i = "master"

\* InetMVpnTable::IsDefault
IsDefault == IsDefaultInstance(rtinstance)

\* IsDefault of the source table (an InetMVpnTable of routing instance t)
SrcIsDefault(t) == IsDefaultInstance(t)

\* BgpRoute *src_rt: a route object is identified by its table and its key
SrcRoute(t, p) == [table |-> t, prefix |-> p]

\* A null pointer to an object (a route, a path, the manager).
nullptr == [null |-> TRUE]

NoRoute == nullptr
NewRoute == [deleted |-> FALSE, paths |-> <<>>]

RECURSIVE SumLen(_, _)
SumLen(rts, S) ==
    IF S = {} THEN 0
    ELSE LET p == CHOOSE x \in S : TRUE
         IN (IF rts[p] = NoRoute THEN 0 ELSE Len(rts[p].paths)) + SumLen(rts, S \ {p})

TotalPaths(rts) == SumLen(rts, Prefixes)

(***************************************************************************)
(* Collaborators of the table: the route's path list (bgp_route.cc,        *)
(* route.cc) and the attribute database (bgp_attr.cc)                      *)
(***************************************************************************)
\* The path a secondary path was replicated from is named by the source route,
\* the path source, the peer and the path id.
MatchesPath(path, src_rt, src, peer, path_id) ==
    /\ path.secondary
    /\ path.src_rt = src_rt
    /\ path.source = src
    /\ path.peer = peer
    /\ path.path_id = path_id

\* BgpRoute::FindSecondaryPath: index of the first matching path, 0 for NULL
FindSecondaryPath(paths, src_rt, src, peer, path_id) ==
    LET hits == {i \in 1..Len(paths) : MatchesPath(paths[i], src_rt, src, peer, path_id)}
    IN IF hits = {} THEN 0 ELSE CHOOSE i \in hits : \A j \in hits : i <= j

\* BgpRoute::RemoveSecondaryPath: removes the first matching path; success
\* tells whether there was one.
RemoveSecondaryPath(paths, src_rt, src, peer, path_id) ==
    LET i == FindSecondaryPath(paths, src_rt, src, peer, path_id)
    IN IF i = 0 THEN [success |-> FALSE, paths |-> paths]
       ELSE [success |-> TRUE,
             paths |-> SubSeq(paths, 1, i - 1) \o SubSeq(paths, i + 1, Len(paths))]

\* The ranking rule of the path list (Path comparison): a path learnt from
\* peerA is preferred to one learnt from peerB; otherwise the paths tie.
PeerRank(peer) == IF peer = "peerA" THEN 1 ELSE 2

PathBetter(a, b) == PeerRank(a.peer) < PeerRank(b.peer)

\* Route::InsertPath: the list is kept in ranking order, best path first; a
\* new path goes before the first path it is better than.
InsertPath(paths, path) ==
    LET worse == {i \in 1..Len(paths) : PathBetter(path, paths[i])}
        pos == IF worse = {} THEN Len(paths) + 1
               ELSE CHOOSE i \in worse : \A j \in worse : i <= j
    IN SubSeq(paths, 1, pos - 1) \o <<path>> \o SubSeq(paths, pos, Len(paths))

\* Route::front: the best path, NULL for an empty list
Front(paths) == IF Len(paths) = 0 THEN nullptr ELSE paths[1]

\* BgpAttrDB::ReplaceExtCommunityAndLocate: the attribute with its extended
\* communities replaced, interned.  The database holds one object per content,
\* so two handles are the same object exactly when their contents are equal:
\* a handle is modelled by its content.
ReplaceExtCommunityAndLocate(attr, community) ==
    [attr EXCEPT !.ext_community = community]

(***************************************************************************)
(* InetMVpnTable::RouteReplicate                                           *)
(***************************************************************************)
\* SkipsReplication with the check of the source table lost.
SkipsReplication_Never(src_table) == FALSE

\* VPN to VPN replication is not performed.
SkipsReplication(src_table) == ~IsDefault /\ ~SrcIsDefault(src_table)

\* IsNativeRoute with the check of the route type lost.
IsNativeRoute_Never(prefix) == FALSE

\* Native routes are not replicated.
IsNativeRoute(prefix) == prefix.type = "NativeRoute"

\* ReplicatedPrefix with the branches swapped.
ReplicatedPrefix_Swapped(prefix, src_path) ==
    IF IsDefault
    THEN [prefix EXCEPT !.rd = null_rd]
    ELSE [prefix EXCEPT !.rd = src_path.attr.source_rd]

\* The key of the destination route: the source route's prefix with the RD
\* rewritten.
ReplicatedPrefix(prefix, src_path) ==
    IF IsDefault
    THEN [prefix EXCEPT !.rd = src_path.attr.source_rd]
    ELSE [prefix EXCEPT !.rd = null_rd]

\* Find the destination route in its partition, or add it; a route found has
\* its deletion mark cleared.
LocateRoute(rts, mprefix) ==
    IF rts[mprefix] = NoRoute
    THEN [rts EXCEPT ![mprefix] = NewRoute]
    ELSE [rts EXCEPT ![mprefix].deleted = FALSE]

\* PathIsCurrent with the attribute comparison lost: never current.
PathIsCurrent_Never(paths, src_rt, src_path, new_attr) == FALSE

\* PathIsCurrent with the attribute comparison lost: any path found is current.
PathIsCurrent_Found(paths, src_rt, src_path, new_attr) ==
    FindSecondaryPath(paths, src_rt, src_path.source, src_path.peer,
                      src_path.path_id) # 0

\* The peer already has a path with the same attribute: nothing to do.
PathIsCurrent(paths, src_rt, src_path, new_attr) ==
    LET i == FindSecondaryPath(paths, src_rt, src_path.source, src_path.peer,
                               src_path.path_id)
    IN i # 0 /\ new_attr = paths[i].attr

\* RemoveStalePath with the removal lost.
RemoveStalePath_Keep(paths, src_rt, src_path, new_attr) ==
    [success |-> TRUE, paths |-> paths]

\* The peer already has a path with another attribute: it is removed.
RemoveStalePath(paths, src_rt, src_path, new_attr) ==
    LET i == FindSecondaryPath(paths, src_rt, src_path.source, src_path.peer,
                               src_path.path_id)
    IN IF i # 0 /\ new_attr # paths[i].attr
       THEN RemoveSecondaryPath(paths, src_rt, src_path.source, src_path.peer,
                                src_path.path_id)
       ELSE [success |-> TRUE, paths |-> paths]

\* ReplicatedPath carrying the source path's attribute, not the rewritten one.
ReplicatedPath_SourceAttr(src_table, src_rt, src_path, new_attr) ==
    [secondary |-> TRUE,
     peer      |-> src_path.peer,
     path_id   |-> src_path.path_id,
     source    |-> src_path.source,
     attr      |-> src_path.attr,
     flags     |-> src_path.flags,
     label     |-> src_path.label,
     src_table |-> src_table,
     src_rt    |-> src_rt]

\* new BgpSecondaryPath(...) and SetReplicateInfo
ReplicatedPath(src_table, src_rt, src_path, new_attr) ==
    [secondary |-> TRUE,
     peer      |-> src_path.peer,
     path_id   |-> src_path.path_id,
     source    |-> src_path.source,
     attr      |-> new_attr,
     flags     |-> src_path.flags,
     label     |-> src_path.label,
     src_table |-> src_table,
     src_rt    |-> src_rt]

\* NotifyNeeded with the comparison with the best path lost.
NotifyNeeded_Always(paths, replicated_path) == TRUE

\* The partition is notified only if the inserted path is selected.
NotifyNeeded(paths, replicated_path) == replicated_path = Front(paths)

\* The record of a RouteReplicate call that returned: its arguments, the route
\* returned, whether it removed a path, inserted one, notified the partition,
\* and whether the call before it was the same call (again).
ReplicateCall(src_table, src_prefix, src_path, community, ret, removed, inserted, notified) ==
    [op |-> "RouteReplicate", src_table |-> src_table, src_prefix |-> src_prefix,
     src_path |-> src_path, community |-> community, ret |-> ret,
     removed |-> removed, inserted |-> inserted, notified |-> notified,
     again |-> /\ call.op = "RouteReplicate"
               /\ "ret" \in DOMAIN call
               /\ call.src_table = src_table
               /\ call.src_prefix = src_prefix
               /\ call.src_path = src_path
               /\ call.community = community]

RouteReplicate(src_table, src_prefix, src_path, community) ==
    /\ fault = "none"
    /\ UNCHANGED inflight
    /\ rtinstance # NULL
    /\ LET src_rt == SrcRoute(src_table, src_prefix)
           mprefix == ReplicatedPrefix(src_prefix, src_path)
           located == LocateRoute(routes, mprefix)
           new_attr == ReplaceExtCommunityAndLocate(src_path.attr, community)
           found == FindSecondaryPath(located[mprefix].paths, src_rt, src_path.source,
                                      src_path.peer, src_path.path_id)
           removal == RemoveStalePath(located[mprefix].paths, src_rt, src_path, new_attr)
           replicated_path == ReplicatedPath(src_table, src_rt, src_path, new_attr)
           inserted == InsertPath(removal.paths, replicated_path)
       IN IF Family(src_table) # "INETMVPN" THEN
              \* assert(src_table->family() == Address::INETMVPN)
              /\ fault' = "assert"
              /\ call' = [op |-> "RouteReplicate", src_table |-> src_table]
              /\ UNCHANGED <<rtinstance, tree_manager, routes>>
          ELSE IF SkipsReplication(src_table) \/ IsNativeRoute(src_prefix) THEN
              /\ call' = ReplicateCall(src_table, src_prefix, src_path, community,
                                       NoRoute, FALSE, FALSE, FALSE)
              /\ UNCHANGED <<rtinstance, tree_manager, routes, fault>>
          ELSE IF PathIsCurrent(located[mprefix].paths, src_rt, src_path, new_attr) THEN
              /\ routes' = located
              /\ call' = ReplicateCall(src_table, src_prefix, src_path, community,
                                       mprefix, FALSE, FALSE, FALSE)
              /\ UNCHANGED <<rtinstance, tree_manager, fault>>
          ELSE IF ~removal.success THEN
              \* assert(success)
              /\ routes' = located
              /\ fault' = "assert"
              /\ call' = [op |-> "RouteReplicate", src_table |-> src_table]
              /\ UNCHANGED <<rtinstance, tree_manager>>
          ELSE
              /\ routes' = [located EXCEPT ![mprefix].paths = inserted]
              /\ TotalPaths(routes') <= MaxPaths
              /\ call' = ReplicateCall(src_table, src_prefix, src_path, community,
                                       mprefix, found # 0, TRUE,
                                       NotifyNeeded(inserted, replicated_path))
              /\ UNCHANGED <<rtinstance, tree_manager, fault>>

(***************************************************************************)
(* The replication driver and the partition (route lifecycle)              *)
(***************************************************************************)
\* The replication driver withdraws a replicated path; a route left without
\* paths is deleted from its partition (marked deleted).
DeleteSecondaryPath(prefix, i) ==
    /\ fault = "none"
    /\ UNCHANGED inflight
    /\ routes[prefix] # NoRoute
    /\ i \in 1..Len(routes[prefix].paths)
    /\ LET paths == routes[prefix].paths
           rest == SubSeq(paths, 1, i - 1) \o SubSeq(paths, i + 1, Len(paths))
       IN routes' = [routes EXCEPT ![prefix] =
                        [deleted |-> Len(rest) = 0, paths |-> rest]]
    /\ call' = [op |-> "DeleteSecondaryPath"]
    /\ UNCHANGED <<rtinstance, tree_manager, fault>>

\* The partition frees a deleted route once nothing refers to it.
PurgeRoute(prefix) ==
    /\ fault = "none"
    /\ UNCHANGED inflight
    /\ routes[prefix] # NoRoute
    /\ routes[prefix].deleted
    /\ Len(routes[prefix].paths) = 0
    /\ routes' = [routes EXCEPT ![prefix] = NoRoute]
    /\ call' = [op |-> "PurgeRoute"]
    /\ UNCHANGED <<rtinstance, tree_manager, fault>>

(***************************************************************************)
(* Tree manager lifecycle                                                  *)
(***************************************************************************)
\* BgpObjectFactory::Create<McastTreeManager>(this) followed by Initialize()
\* No Export call is between its check of the tree manager and its return.
NoExport == [pending |-> FALSE]

\* The table-level lifecycle lock, held by the caller of Export across the
\* call: creation and termination of the tree manager wait for it.
LifecycleLocked == inflight.pending

NewTreeManager == [initialized |-> TRUE, deleted |-> FALSE, freed |-> FALSE]

\* CreateTreeManagerBody with the check of the default instance lost.
CreateTreeManagerBody_AnyInstance(is_default, tm) ==
    IF tm # nullptr THEN [tree_manager |-> tm, fault |-> "assert", calls |-> <<>>]
    ELSE [tree_manager |-> NewTreeManager, fault |-> "none", calls |-> <<"Initialize">>]

\* CreateTreeManagerBody with the assertion lost: a second manager replaces
\* the first.
CreateTreeManagerBody_NoAssert(is_default, tm) ==
    IF is_default THEN [tree_manager |-> tm, fault |-> "none", calls |-> <<>>]
    ELSE [tree_manager |-> NewTreeManager, fault |-> "none", calls |-> <<"Initialize">>]

\* The body of CreateTreeManager for a table whose instance is_default and
\* whose manager is tm: the manager and the fault it leaves, and the methods
\* of the manager it calls.
CreateTreeManagerBody(is_default, tm) ==
    IF is_default THEN [tree_manager |-> tm, fault |-> "none", calls |-> <<>>]
    ELSE IF tm # nullptr THEN [tree_manager |-> tm, fault |-> "assert", calls |-> <<>>]
    ELSE [tree_manager |-> NewTreeManager, fault |-> "none", calls |-> <<"Initialize">>]

CreateTreeManager ==
    /\ fault = "none"
    /\ ~LifecycleLocked
    /\ UNCHANGED inflight
    /\ rtinstance # NULL
    /\ LET r == CreateTreeManagerBody(IsDefault, tree_manager)
       IN /\ tree_manager' = r.tree_manager
          /\ fault' = r.fault
          /\ call' = [op |-> "CreateTreeManager", manager_calls |-> r.calls]
    /\ UNCHANGED <<rtinstance, routes>>

\* DestroyTreeManagerBody with the check of the default instance lost.
DestroyTreeManagerBody_AnyInstance(is_default, tm) ==
    IF tm = nullptr
    THEN {[tree_manager |-> nullptr, fault |-> f, calls |-> <<"Terminate">>] :
             f \in {"segv", "none"}}
    ELSE {[tree_manager |-> nullptr, fault |-> "none", calls |-> <<"Terminate">>]}

\* DestroyTreeManagerBody with the reset of tree_manager_ lost: the pointer
\* is left on the manager that was freed.
DestroyTreeManagerBody_Dangling(is_default, tm) ==
    IF is_default THEN {[tree_manager |-> tm, fault |-> "none", calls |-> <<>>]}
    ELSE IF tm = nullptr
    THEN {[tree_manager |-> nullptr, fault |-> f, calls |-> <<"Terminate">>] :
             f \in {"segv", "none"}}
    ELSE {[tree_manager |-> [tm EXCEPT !.freed = TRUE], fault |-> "none",
           calls |-> <<"Terminate">>]}

\* The body of DestroyTreeManager for a table whose instance is_default and
\* whose manager is tm: the outcomes it can have, each the manager and the
\* fault it leaves and the methods of the manager it calls.
\* tree_manager_->Terminate() on a null pointer is undefined: the process dies
\* on the access, or the call goes through and the pointer is reset.
DestroyTreeManagerBody(is_default, tm) ==
    IF is_default THEN {[tree_manager |-> tm, fault |-> "none", calls |-> <<>>]}
    ELSE IF tm = nullptr
    THEN {[tree_manager |-> nullptr, fault |-> f, calls |-> <<"Terminate">>] :
             f \in {"segv", "none"}}
    ELSE {[tree_manager |-> nullptr, fault |-> "none", calls |-> <<"Terminate">>]}

DestroyTreeManager ==
    /\ fault = "none"
    /\ ~LifecycleLocked
    /\ UNCHANGED inflight
    /\ rtinstance # NULL
    /\ \E r \in DestroyTreeManagerBody(IsDefault, tree_manager) :
          /\ tree_manager' = r.tree_manager
          /\ fault' = r.fault
          /\ call' = [op |-> "DestroyTreeManager", manager_calls |-> r.calls]
    /\ UNCHANGED <<rtinstance, routes>>

\* BgpTable::set_routing_instance stores the instance; CreateTreeManager follows.
set_routing_instance(rtinst) ==
    /\ fault = "none"
    /\ ~LifecycleLocked
    /\ UNCHANGED inflight
    /\ rtinstance' = rtinst
    /\ LET r == CreateTreeManagerBody(IsDefaultInstance(rtinst), tree_manager)
       IN /\ tree_manager' = r.tree_manager
          /\ fault' = r.fault
          /\ call' = [op |-> "set_routing_instance", manager_calls |-> r.calls]
    /\ UNCHANGED routes

\* The manager enters deletion on its own (graceful shutdown in progress):
\* tree_manager_->deleter()->IsDeleted() turns true.
TreeManagerShutdown ==
    /\ fault = "none"
    /\ UNCHANGED inflight
    /\ tree_manager # nullptr
    /\ ~tree_manager.deleted
    /\ tree_manager' = [tree_manager EXCEPT !.deleted = TRUE]
    /\ call' = [op |-> "TreeManagerShutdown"]
    /\ UNCHANGED <<rtinstance, routes, fault>>

(***************************************************************************)
(* InetMVpnTable::Export                                                   *)
(***************************************************************************)
\* Output channels (RibOut): the encoding and the peers registered on it.
RibOuts == [encoding_bgp : BOOLEAN, registered : SUBSET Peers]

\* RibOut::GetPeerIndex: the bit of a registered peer in a RibPeerSet
GetPeerIndex(peer) == IF peer = "peerA" THEN 0 ELSE 1

PeerSets == SUBSET {0, 1}

\* Routes handed to Export: the type of the prefix and the path list, empty
\* or holding a best path learnt from a peer or from no peer (NULL).
ExportRoutes ==
    [type : RouteTypes,
     paths : {<<>>} \cup {<<[secondary |-> FALSE, peer |-> q]>> : q \in Peers \cup {NULL}}]

\* Route::BestPath
BestPath(route) == Front(route.paths)

\* A collaborator that was not called.
NotCalled == [called |-> FALSE]

\* BgpTable::GetUpdateInfo(ribout, route, peerset): no update, or an update
\* for peers of the peer set.
GenericUpdateInfos(peerset) == {nullptr, [attr |-> "generic", target |-> peerset]}

\* McastTreeManager::GetUpdateInfo(route): no update, or the update computed
\* from the distribution tree, with no target yet.
TreeUpdateInfos == {nullptr, [attr |-> "tree", target |-> {}]}

\* What inetmvpn_route->BestPath()->GetPeer() yields: the peer of the best
\* path; with no best path the read goes through a null pointer, and the
\* process dies ("segv") or any value is read.
BestPathPeers(route) ==
    IF BestPath(route) = nullptr THEN {"segv", NULL} \cup Peers
    ELSE {BestPath(route).peer}

\* IsEncodingBgp with the generic branch never taken.
IsEncodingBgp_Never(ribout) == FALSE

\* The channel uses the generic BGP encoding.
IsEncodingBgp(ribout) == ribout.encoding_bgp

\* NoLiveTreeManager with the check of the deleter lost.
NoLiveTreeManager_AbsentOnly(tm) == tm = nullptr

\* No tree manager, or a tree manager being deleted: nothing is sent.
NoLiveTreeManager(tm) == tm = nullptr \/ tm.deleted

\* The best path has no peer, or a peer that is not registered on the channel.
PeerNotRegistered(ribout, peer) == peer = NULL \/ peer \notin ribout.registered

\* The peer is not in the peer set the update is built for.
PeerNotInSet(peerset, peerbit) == peerbit \notin peerset

\* uinfo->target.set(peerbit)
SetTarget(uinfo, peerbit) == [uinfo EXCEPT !.target = @ \cup {peerbit}]

ExportCall(ribout, route, peerset, ret, uinfo_slist, generic, consulted, tree) ==
    [op |-> "Export", ribout |-> ribout, route |-> route, peerset |-> peerset,
     ret |-> ret, uinfo_slist |-> uinfo_slist, generic_uinfo |-> generic,
     consulted |-> consulted, tree_uinfo |-> tree]

\* uinfo_slist is the caller's list, empty at the call; consulted is the set of
\* tree manager methods the call invoked.
Export(ribout, route, peerset) ==
    /\ fault = "none"
    /\ UNCHANGED inflight
    /\ IF IsEncodingBgp(ribout) THEN
           \E uinfo \in GenericUpdateInfos(peerset) :
               /\ call' = ExportCall(ribout, route, peerset, uinfo # nullptr,
                                     IF uinfo = nullptr THEN <<>> ELSE <<uinfo>>,
                                     uinfo, {}, NotCalled)
               /\ fault' = "none"
       ELSE IF route.type # "NativeRoute" THEN
           /\ call' = ExportCall(ribout, route, peerset, FALSE, <<>>,
                                 NotCalled, {}, NotCalled)
           /\ fault' = "none"
       ELSE IF NoLiveTreeManager(tree_manager) THEN
           /\ call' = ExportCall(ribout, route, peerset, FALSE, <<>>, NotCalled,
                                 IF tree_manager = nullptr THEN {} ELSE {"IsDeleted"},
                                 NotCalled)
           /\ fault' = "none"
       ELSE \E peer \in BestPathPeers(route) :
           IF peer = "segv" THEN
               /\ fault' = "segv"
               /\ call' = [op |-> "Export", ribout |-> ribout, route |-> route,
                           peerset |-> peerset]
           ELSE IF PeerNotRegistered(ribout, peer)
                   \/ PeerNotInSet(peerset, GetPeerIndex(peer)) THEN
               /\ call' = ExportCall(ribout, route, peerset, FALSE, <<>>,
                                     NotCalled, {"IsDeleted"}, NotCalled)
               /\ fault' = "none"
           ELSE \E uinfo \in TreeUpdateInfos :
               /\ call' = ExportCall(ribout, route, peerset, uinfo # nullptr,
                                     IF uinfo = nullptr THEN <<>>
                                     ELSE <<SetTarget(uinfo, GetPeerIndex(peer))>>,
                                     NotCalled, {"IsDeleted", "GetUpdateInfo"}, uinfo)
               /\ fault' = "none"
    /\ UNCHANGED <<rtinstance, tree_manager, routes>>

(***************************************************************************)
(* InetMVpnTable::Export in two steps, for its interleavings with the      *)
(* lifecycle of the tree manager                                           *)
(***************************************************************************)
\* The record of an Export step: the record of the call, and the tree
\* manager object the step used.
ExportStepCall(c, manager) ==
    [op |-> "Export", ribout |-> c.ribout, route |-> c.route, peerset |-> c.peerset,
     ret |-> c.ret, uinfo_slist |-> c.uinfo_slist, generic_uinfo |-> c.generic_uinfo,
     consulted |-> c.consulted, tree_uinfo |-> c.tree_uinfo, manager |-> manager]

\* Lines 139-153 of an Export of a native route on a channel without the
\* generic encoding: the check of the tree manager.  The call returns false,
\* or it goes on with the manager it found.
ExportCheck(ribout, route, peerset) ==
    /\ fault = "none"
    /\ ~inflight.pending
    /\ ~IsEncodingBgp(ribout)
    /\ route.type = "NativeRoute"
    /\ IF NoLiveTreeManager(tree_manager) THEN
           /\ call' = ExportStepCall(
                         ExportCall(ribout, route, peerset, FALSE, <<>>, NotCalled,
                                    IF tree_manager = nullptr THEN {}
                                    ELSE {"IsDeleted"}, NotCalled),
                         tree_manager)
           /\ UNCHANGED inflight
       ELSE
           /\ inflight' = [pending |-> TRUE, ribout |-> ribout, route |-> route,
                           peerset |-> peerset]
           /\ call' = [op |-> "ExportCheck", manager |-> tree_manager]
    /\ UNCHANGED <<rtinstance, tree_manager, routes, fault>>

\* Lines 155-169 of the Export in flight.  tree_manager_->GetUpdateInfo on a
\* null pointer or on a freed manager is undefined: the process dies, or the
\* call yields some update.
ExportUpdate ==
    /\ fault = "none"
    /\ inflight.pending
    /\ inflight' = NoExport
    /\ LET ribout == inflight.ribout
           route == inflight.route
           peerset == inflight.peerset
       IN \E peer \in BestPathPeers(route) :
           IF peer = "segv" THEN
               /\ fault' = "segv"
               /\ call' = [op |-> "Export", ribout |-> ribout, route |-> route,
                           peerset |-> peerset]
           ELSE IF PeerNotRegistered(ribout, peer)
                   \/ PeerNotInSet(peerset, GetPeerIndex(peer)) THEN
               /\ call' = ExportStepCall(
                             ExportCall(ribout, route, peerset, FALSE, <<>>,
                                        NotCalled, {"IsDeleted"}, NotCalled),
                             tree_manager)
               /\ fault' = "none"
           ELSE \E uinfo \in TreeUpdateInfos :
               /\ call' = ExportStepCall(
                             ExportCall(ribout, route, peerset, uinfo # nullptr,
                                        IF uinfo = nullptr THEN <<>>
                                        ELSE <<SetTarget(uinfo, GetPeerIndex(peer))>>,
                                        NotCalled, {"IsDeleted", "GetUpdateInfo"}, uinfo),
                             tree_manager)
               /\ IF tree_manager = nullptr \/ tree_manager.freed
                  THEN fault' \in {"segv", "none"}
                  ELSE fault' = "none"
    /\ UNCHANGED <<rtinstance, tree_manager, routes>>

(***************************************************************************)
(* InetMVpnTable::Hash, InetMVpnTable::AllocEntryStr                       *)
(***************************************************************************)
\* DB::PartitionCount(): the number of partitions of a table.
PartitionCount == 4

\* IPv4 addresses as their four octets.
HashGroups ==
    {<<a, b, c, d>> : a \in {224, 239}, b \in {0, 255}, c \in {0, 1}, d \in {0, 1, 2, 255}}
HashSources == {<<9, 8, 7, 6>>, <<224, 0, 0, 1>>}

\* The prefixes Hash is called with.
HashPrefixes == [rd : RDs, source : HashSources, group : HashGroups, type : RouteTypes]

\* address_v4::to_ulong: the 32-bit value of the address in host order, kept
\* as its two 16-bit halves.
to_ulong(addr) == [hi |-> addr[1] * 256 + addr[2], lo |-> addr[3] * 256 + addr[4]]

\* boost::hash_value of an unsigned long: the value itself, as a size_t.
hash_value(v) == v

\* value % n for a value kept as two 16-bit halves.
ModSizeT(v, n) == ((v.hi % n) * (65536 % n) + v.lo) % n

\* HashFunction computed over the source address instead of the group.
HashFunction_Source(prefix) == hash_value(to_ulong(prefix.source))

HashFunction(prefix) == hash_value(to_ulong(prefix.group))

\* Ip4Prefix(addr, prefixlen)
Ip4Prefix(addr, prefixlen) == [addr |-> addr, prefixlen |-> prefixlen]

\* InetTable::HashFunction: the hash of the address of the prefix, the same
\* basis as HashFunction.
InetTableHashFunction(prefix) == hash_value(to_ulong(prefix.addr))

\* InetMVpnTable::Hash(const DBEntry *)
HashEntry(prefix) == ModSizeT(HashFunction(prefix), PartitionCount)

\* InetMVpnTable::Hash(const DBRequestKey *)
HashKey(prefix) ==
    ModSizeT(InetTableHashFunction(Ip4Prefix(prefix.group, 32)), PartitionCount)

\* Both overloads of Hash, called for a route of the prefix and for a request
\* key of the prefix.
Hash(prefix) ==
    /\ fault = "none"
    /\ call' = [op |-> "Hash", prefix |-> prefix,
                entry |-> HashEntry(prefix), key |-> HashKey(prefix)]
    /\ UNCHANGED <<rtinstance, tree_manager, routes, fault, inflight>>

\* The string form of a prefix, as its fields: type, RD, group, source.
TypeField(type) == IF type = "NativeRoute" THEN "0" ELSE "1"
PrefixToString(prefix) == <<TypeField(prefix.type), prefix.rd, prefix.group, prefix.source>>

\* Strings that are the string form of no prefix.
MalformedStrings ==
    {<<>>,
     <<"0", "10.1.1.2:2", "224.1.1.1">>,
     <<"7", "10.1.1.2:2", "224.1.1.1", "9.8.7.6">>,
     <<"0", "10.1.1.2", "224.1.1.1", "9.8.7.6">>,
     <<"1", "10.1.1.2:2", "224.1.1", "9.8.7.6">>,
     <<"1", "10.1.1.2:2", "224.1.1.1", "">>}

KeyStrings == {PrefixToString(p) : p \in Prefixes} \cup MalformedStrings

\* A default-constructed InetMVpnPrefix.
DefaultPrefix ==
    [rd |-> null_rd, source |-> "0.0.0.0", group |-> "0.0.0.0", type |-> "NativeRoute"]

WellFormed(str) ==
    /\ Len(str) = 4
    /\ str[1] \in {"0", "1"}
    /\ str[2] \in RDs
    /\ str[3] \in Groups
    /\ str[4] \in SrcAddrs

\* InetMVpnPrefix::FromString(str, errorp): the prefix parsed and no error, or
\* an error and a default prefix.
FromString(str) ==
    IF WellFormed(str)
    THEN [error |-> FALSE,
          prefix |-> [rd |-> str[2], source |-> str[4], group |-> str[3],
                      type |-> IF str[1] = "0" THEN "NativeRoute"
                               ELSE "LocalTreeRoute"]]
    ELSE [error |-> TRUE, prefix |-> DefaultPrefix]

\* new InetMVpnRoute(prefix)
InetMVpnRoute(prefix) == [prefix |-> prefix, deleted |-> FALSE, paths |-> <<>>]

\* FromString is called without an error argument and its error is not read.
AllocEntryStr(key_str) ==
    /\ fault = "none"
    /\ call' = [op |-> "AllocEntryStr", key_str |-> key_str,
                ret |-> InetMVpnRoute(FromString(key_str).prefix)]
    /\ UNCHANGED <<rtinstance, tree_manager, routes, fault, inflight>>

(***************************************************************************)
(* Specifications                                                          *)
(***************************************************************************)
\* InetMVpnTable::InetMVpnTable
Init ==
    /\ rtinstance = NULL
    /\ tree_manager = nullptr
    /\ routes = [p \in Prefixes |-> NoRoute]
    /\ fault = "none"
    /\ call = [op |-> "InetMVpnTable"]
    /\ inflight = NoExport

\* Lifecycle and export calls on the table, from its construction.
Next ==
    \/ \E rtinst \in Instances : set_routing_instance(rtinst)
    \/ CreateTreeManager
    \/ DestroyTreeManager
    \/ TreeManagerShutdown
    \/ \E ribout \in RibOuts : \E route \in ExportRoutes : \E peerset \in PeerSets :
         Export(ribout, route, peerset)

Spec == Init /\ [][Next]_vars

\* Export calls interleaved with the lifecycle of the tree manager: an Export
\* is two steps, and the lifecycle calls wait for the lifecycle lock.
RaceNext ==
    \/ \E rtinst \in Instances : set_routing_instance(rtinst)
    \/ CreateTreeManager
    \/ DestroyTreeManager
    \/ TreeManagerShutdown
    \/ \E ribout \in RibOuts : \E route \in ExportRoutes : \E peerset \in PeerSets :
         ExportCheck(ribout, route, peerset)
    \/ ExportUpdate

RaceSpec == Init /\ [][RaceNext]_vars

\* The functions of keys: both overloads of Hash and AllocEntryStr, on the
\* table as constructed.
KeyNext ==
    \/ \E prefix \in HashPrefixes : Hash(prefix)
    \/ \E key_str \in KeyStrings : AllocEntryStr(key_str)

KeySpec == Init /\ [][KeyNext]_vars

\* The table once its routing instance is assigned: the constructor followed
\* by set_routing_instance, as the routing instance does when it creates the
\* table.
ReplicateInit ==
    \E rtinst \in Instances :
        /\ rtinstance = rtinst
        /\ tree_manager =
               CreateTreeManagerBody(IsDefaultInstance(rtinst), nullptr).tree_manager
        /\ routes = [p \in Prefixes |-> NoRoute]
        /\ fault = "none"
        /\ call = [op |-> "set_routing_instance",
                   manager_calls |->
                       CreateTreeManagerBody(IsDefaultInstance(rtinst), nullptr).calls]
        /\ inflight = NoExport

\* Replication into the table of an assigned routing instance.
ReplicateNext ==
    \/ \E t \in SrcTables : \E p \in SrcPrefixes(t) : \E sp \in SrcPaths :
         \E c \in ExtCommunities : RouteReplicate(t, p, sp, c)
    \/ \E p \in Prefixes : \E i \in 1..MaxPaths : DeleteSecondaryPath(p, i)
    \/ \E p \in Prefixes : PurgeRoute(p)

ReplicateSpec == ReplicateInit /\ [][ReplicateNext]_vars

(***************************************************************************)
(* Properties of RouteReplicate, checked under ReplicateSpec                *)
(***************************************************************************)
\* A RouteReplicate call that returned (it did not die on an assertion)
ReplicateReturned(c) == c.op = "RouteReplicate" /\ "ret" \in DOMAIN c

\* The path is the secondary path replicated from the source path of call c:
\* same source table, source route, path source, peer and path id.
ReplicatedFrom(path, c) ==
    /\ path.secondary
    /\ path.src_table = c.src_table
    /\ path.src_rt = SrcRoute(c.src_table, c.src_prefix)
    /\ path.source = c.src_path.source
    /\ path.peer = c.src_path.peer
    /\ path.path_id = c.src_path.path_id

\* The positions of the paths of a path list replicated from the source path of c
ReplicasOf(paths, c) == {i \in 1..Len(paths) : ReplicatedFrom(paths[i], c)}

SameArguments(c, d) ==
    /\ c.src_table = d.src_table
    /\ c.src_prefix = d.src_prefix
    /\ c.src_path = d.src_path
    /\ c.community = d.community

\* C1: a RouteReplicate call that directly follows a call with the same source
\* table, source route, source path (same attribute) and community returns the
\* same route as the first, inserts no path, does not notify the partition, and
\* leaves exactly one secondary path replicated from that source path on the
\* route.
C1_ReplicateIdempotent ==
    [][(ReplicateReturned(call) /\ ReplicateReturned(call') /\ SameArguments(call, call'))
        => /\ call'.ret = call.ret
           /\ ~call'.inserted
           /\ ~call'.removed
           /\ ~call'.notified
           /\ call'.ret # NoRoute =>
                /\ routes'[call'.ret] # NoRoute
                /\ Cardinality(ReplicasOf(routes'[call'.ret].paths, call')) = 1]_vars

\* A second identical call has returned the route, on which another path too
\* is held.
C1_Witness ==
    /\ ReplicateReturned(call)
    /\ call.again
    /\ call.ret # NoRoute
    /\ Len(routes[call.ret].paths) = 2
    /\ Cardinality(ReplicasOf(routes[call.ret].paths, call)) = 1

\* C2 as stated: no route holds two secondary paths with the same source
\* table, source route, peer and path id.
C2_UniquePerPeerAndPathId ==
    \A p \in Prefixes : routes[p] # NoRoute =>
        \A i, j \in 1..Len(routes[p].paths) :
            LET a == routes[p].paths[i]
                b == routes[p].paths[j]
            IN (/\ a.secondary /\ b.secondary
                /\ a.src_table = b.src_table
                /\ a.src_rt = b.src_rt
                /\ a.peer = b.peer
                /\ a.path_id = b.path_id) => i = j

\* C2 amended: no route holds two secondary paths with the same source table,
\* source route, path source, peer and path id.
C2_UniquePerSourcePath ==
    \A p \in Prefixes : routes[p] # NoRoute =>
        \A i, j \in 1..Len(routes[p].paths) :
            LET a == routes[p].paths[i]
                b == routes[p].paths[j]
            IN (/\ a.secondary /\ b.secondary
                /\ a.src_table = b.src_table
                /\ a.src_rt = b.src_rt
                /\ a.source = b.source
                /\ a.peer = b.peer
                /\ a.path_id = b.path_id) => i = j

\* A path was replaced on a route that holds two secondary paths of the same
\* source route, peer and path id, of different path sources.
C2_Witness ==
    /\ ReplicateReturned(call)
    /\ call.removed
    /\ call.inserted
    /\ Len(routes[call.ret].paths) = 2
    /\ LET a == routes[call.ret].paths[1]
           b == routes[call.ret].paths[2]
       IN /\ a.secondary /\ b.secondary
          /\ a.src_table = b.src_table
          /\ a.src_rt = b.src_rt
          /\ a.peer = b.peer
          /\ a.path_id = b.path_id
          /\ a.source # b.source

\* C3: the route a RouteReplicate call returns is in the table and has the
\* source route's prefix with only the RD changed: the source RD of the source
\* path's attribute in the default instance's table, the null RD in another.
C3_ReplicatedPrefix ==
    (ReplicateReturned(call) /\ call.ret # NoRoute) =>
        /\ routes[call.ret] # NoRoute
        /\ call.ret.rd = (IF rtinstance = "master"
                          THEN call.src_path.attr.source_rd
                          ELSE "0:0")
        /\ call.ret.source = call.src_prefix.source
        /\ call.ret.group = call.src_prefix.group
        /\ call.ret.type = call.src_prefix.type

\* A route of a VPN table (null RD) was replicated into the default instance's
\* table under the source RD of its path.
C3_Witness ==
    /\ ReplicateReturned(call)
    /\ call.ret # NoRoute
    /\ rtinstance = "master"
    /\ call.src_table = "blue"
    /\ call.src_prefix.rd = "0:0"
    /\ call.ret.rd = "10.1.1.1:1"

\* C4: a RouteReplicate call from a non-default table into a non-default
\* table returns no route and leaves the table as it was: no route created, no
\* deletion mark cleared, no path inserted or removed, no partition notified.
C4_VpnToVpnUntouched ==
    [][(/\ ReplicateReturned(call')
        /\ rtinstance # "master"
        /\ call'.src_table # "master")
        => /\ call'.ret = NoRoute
           /\ routes' = routes
           /\ ~call'.inserted
           /\ ~call'.removed
           /\ ~call'.notified]_vars

\* A replicable route of a VPN table was offered to a VPN table that holds
\* the route it would be replicated to, marked deleted; the mark is still set.
C4_Witness ==
    /\ ReplicateReturned(call)
    /\ rtinstance = "blue"
    /\ call.src_table = "blue"
    /\ call.src_prefix.type # "NativeRoute"
    /\ call.ret = NoRoute
    /\ routes[[call.src_prefix EXCEPT !.rd = "0:0"]] # NoRoute
    /\ routes[[call.src_prefix EXCEPT !.rd = "0:0"]].deleted

\* C5: a RouteReplicate call for a source route of type NativeRoute returns no
\* route and creates no route and no path, whatever the two tables' instances.
C5_NativeNotReplicated ==
    [][(ReplicateReturned(call') /\ call'.src_prefix.type = "NativeRoute")
        => /\ call'.ret = NoRoute
           /\ routes' = routes
           /\ ~call'.inserted]_vars

\* A native route of a VPN table was offered to the default instance's table,
\* where a route of another type would be replicated.
C5_Witness ==
    /\ ReplicateReturned(call)
    /\ call.src_prefix.type = "NativeRoute"
    /\ rtinstance = "master"
    /\ call.src_table = "blue"
    /\ call.ret = NoRoute
    /\ \A p \in Prefixes : p.type = "NativeRoute" => routes[p] = NoRoute

\* The route a call with source RD 10.1.1.1:1 targets in the default table
ScenarioRoute(c) == [c.src_prefix EXCEPT !.rd = "10.1.1.1:1"]

\* The call of the scenario, but for the type of the source route
ScenarioCall(c) ==
    /\ ReplicateReturned(c)
    /\ c.src_path.attr.source_rd = "10.1.1.1:1"
    /\ c.src_table = "blue"
    /\ rtinstance = "master"
    /\ c.community = "C1"

\* The outcome of the scenario: the route with RD 10.1.1.1:1 is in the table
\* and is returned, and holds one secondary path replicated from the source
\* path, which carries community C1.
ScenarioOutcome(c, rts) ==
    /\ c.ret = ScenarioRoute(c)
    /\ rts[ScenarioRoute(c)] # NoRoute
    /\ ~rts[ScenarioRoute(c)].deleted
    /\ Cardinality(ReplicasOf(rts[ScenarioRoute(c)].paths, c)) = 1
    /\ \A i \in ReplicasOf(rts[ScenarioRoute(c)].paths, c) :
           rts[ScenarioRoute(c)].paths[i].attr.ext_community = "C1"

\* C6 as stated: replicating a native route whose path has source RD
\* 10.1.1.1:1 from a VPN table into the default table with community C1
\* leaves the route with RD 10.1.1.1:1 in the default table, with one
\* secondary path that carries C1.
C6_NativeScenario ==
    (ScenarioCall(call) /\ call.src_prefix.type = "NativeRoute")
        => ScenarioOutcome(call, routes)

\* C6 amended: the scenario holds for a source route that is not native; the
\* route is new, with that one path, when the table did not hold it.
C6_ReplicatedScenario ==
    [][(ScenarioCall(call') /\ call'.src_prefix.type # "NativeRoute")
        => /\ ScenarioOutcome(call', routes')
           /\ routes[ScenarioRoute(call')] = NoRoute =>
                /\ call'.inserted
                /\ Len(routes'[ScenarioRoute(call')].paths) = 1]_vars

\* The scenario has run on a table without the route: the route is there with
\* its one path.
C6_Witness ==
    /\ ScenarioCall(call)
    /\ call.src_prefix.type # "NativeRoute"
    /\ call.inserted
    /\ ~call.removed
    /\ Len(routes[ScenarioRoute(call)].paths) = 1
    /\ routes[ScenarioRoute(call)].paths[1].attr.ext_community = "C1"

\* The positions of the replicas of call c's source path in a path list whose
\* attribute is not the one c asks for
StaleReplicas(paths, c) ==
    {i \in ReplicasOf(paths, c) :
        paths[i].attr # [c.src_path.attr EXCEPT !.ext_community = c.community]}

\* C7: when the destination route already holds a secondary path replicated
\* from the source path and its attribute is not the rewritten attribute, the
\* call removes it and inserts one path with the rewritten attribute: the
\* route holds as many paths as before, one of them replicated from the source
\* path, with the new attribute.
C7_StalePathReplaced ==
    [][(/\ ReplicateReturned(call')
        /\ call'.ret # NoRoute
        /\ routes[call'.ret] # NoRoute
        /\ StaleReplicas(routes[call'.ret].paths, call') # {})
        => /\ call'.removed
           /\ call'.inserted
           /\ Len(routes'[call'.ret].paths) = Len(routes[call'.ret].paths)
           /\ Cardinality(ReplicasOf(routes'[call'.ret].paths, call')) = 1
           /\ StaleReplicas(routes'[call'.ret].paths, call') = {}]_vars

\* A call with community C2 has replaced the path replicated with C1 on a
\* route that holds another path too.
C7_Witness ==
    /\ ReplicateReturned(call)
    /\ call.removed
    /\ call.inserted
    /\ call.community = "C2"
    /\ Len(routes[call.ret].paths) = 2
    /\ Cardinality(ReplicasOf(routes[call.ret].paths, call)) = 1
    /\ \A i \in ReplicasOf(routes[call.ret].paths, call) :
           routes[call.ret].paths[i].attr.ext_community = "C2"

(***************************************************************************)
(* Properties of Export and of the tree manager lifecycle, checked under   *)
(* Spec                                                                    *)
(***************************************************************************)
\* The last call was Export of a NativeRoute on a channel that does not use
\* the generic encoding.
NativeExport ==
    /\ call.op = "Export"
    /\ ~call.ribout.encoding_bgp
    /\ call.route.type = "NativeRoute"

\* The route of the last Export call has a best path, learnt from a peer that
\* is not registered on the channel.
BestPeerUnregistered ==
    /\ Len(call.route.paths) > 0
    /\ call.route.paths[1].peer \notin call.ribout.registered

\* The route of the last Export call has a best path, learnt from a peer that
\* is registered on the channel and whose index is not in the peer set.
BestPeerOutsideSet ==
    /\ Len(call.route.paths) > 0
    /\ call.route.paths[1].peer \in call.ribout.registered
    /\ (IF call.route.paths[1].peer = "peerA" THEN 0 ELSE 1) \notin call.peerset

\* C8: on a channel that does not use the generic encoding, Export of a
\* NativeRoute returns false and appends no UpdateInfo when the table has no
\* tree manager, the tree manager is being deleted, the best path's peer is
\* not registered on the channel, or that peer's index is not in the peer set.
C8_ExportSuppressed ==
    (/\ NativeExport
     /\ \/ tree_manager = nullptr
        \/ tree_manager.deleted
        \/ BestPeerUnregistered
        \/ BestPeerOutsideSet)
        => /\ fault = "none"
           /\ call.ret = FALSE
           /\ call.uinfo_slist = <<>>
           /\ call.tree_uinfo = NotCalled

\* Export of a native route whose best path's peer is registered and in the
\* peer set was suppressed because the tree manager is being deleted.
C8_Witness ==
    /\ NativeExport
    /\ fault = "none"
    /\ tree_manager # nullptr
    /\ tree_manager.deleted
    /\ Len(call.route.paths) > 0
    /\ call.route.paths[1].peer = "peerB"
    /\ "peerB" \in call.ribout.registered
    /\ 1 \in call.peerset
    /\ call.ret = FALSE

\* C9: on a channel that uses the generic encoding, Export calls no method of
\* the tree manager, whatever the route's type and whether or not there is a
\* manager; it asks the generic computation for the peer set it was given and
\* returns true, with that update appended, exactly when there is an update.
C9_GenericExport ==
    (call.op = "Export" /\ call.ribout.encoding_bgp)
        => /\ fault = "none"
           /\ call.consulted = {}
           /\ call.tree_uinfo = NotCalled
           /\ call.generic_uinfo # NotCalled
           /\ call.generic_uinfo # nullptr => call.generic_uinfo.target = call.peerset
           /\ call.ret = (call.generic_uinfo # nullptr)
           /\ call.uinfo_slist =
                  (IF call.generic_uinfo # nullptr THEN <<call.generic_uinfo>> ELSE <<>>)

\* A native route was exported with the generic encoding by a table with a
\* live tree manager, for a peer the tree manager would serve.
C9_Witness ==
    /\ call.op = "Export"
    /\ call.ribout.encoding_bgp
    /\ call.route.type = "NativeRoute"
    /\ tree_manager # nullptr
    /\ ~tree_manager.deleted
    /\ Len(call.route.paths) > 0
    /\ call.route.paths[1].peer = "peerA"
    /\ "peerA" \in call.ribout.registered
    /\ call.peerset = {0, 1}
    /\ call.ret = TRUE

\* C10 as stated: once the routing instance is assigned, the table has a tree
\* manager if and only if the routing instance is not the default one.
C10_ManagerIffNonDefault ==
    rtinstance # NULL => ((tree_manager # nullptr) <=> (rtinstance # "master"))

\* C10 amended: a set_routing_instance call on a table without a tree manager
\* leaves a tree manager exactly when the instance assigned is not the default
\* one, and no call creates a tree manager in a table of the default instance.
C10_ManagerOnAssignment ==
    [][/\ (call'.op = "set_routing_instance" /\ tree_manager = nullptr)
           => /\ fault' = "none"
              /\ (tree_manager' # nullptr) <=> (rtinstance' # "master")
       /\ (tree_manager = nullptr /\ tree_manager' # nullptr)
           => rtinstance' # "master"]_vars

\* The table was assigned a routing instance that is not the default one and
\* has a tree manager.
C10_Witness ==
    /\ call.op = "set_routing_instance"
    /\ rtinstance = "blue"
    /\ tree_manager # nullptr
    /\ fault = "none"

\* The call that ended in the next state is the lifecycle operation op.
LifecycleCall(c, op) == c.op = op /\ "manager_calls" \in DOMAIN c

\* C11 as stated: a set_routing_instance call on a table that has a tree
\* manager calls Terminate on that manager; it does not fault and does not
\* leave the manager in place.
C11_ReassignTerminates ==
    [][(call'.op = "set_routing_instance" /\ tree_manager # nullptr)
          => /\ fault' = "none"
             /\ "Terminate" \in {call'.manager_calls[i] :
                                    i \in 1..Len(call'.manager_calls)}]_vars

\* C12: a CreateTreeManager call on a table of a non-default instance that
\* has a tree manager ends in the assertion fault; the manager of the table
\* is the one it had, and Initialize is not called.
C12_DoubleCreateAsserts ==
    [][(call'.op = "CreateTreeManager" /\ fault = "none"
          /\ rtinstance # "master" /\ tree_manager # nullptr)
          => /\ fault' = "assert"
             /\ tree_manager' = tree_manager
             /\ call'.manager_calls = <<>>]_vars

\* A CreateTreeManager call found a manager in a table of a non-default
\* instance.
C12_Witness ==
    /\ LifecycleCall(call, "CreateTreeManager")
    /\ rtinstance = "blue"
    /\ tree_manager # nullptr
    /\ fault = "assert"

\* C13 as stated: a DestroyTreeManager call on a table of a non-default
\* instance that has no tree manager ends in the assertion fault and does not
\* call Terminate.
C13_DestroyAbsentAsserts ==
    [][(call'.op = "DestroyTreeManager" /\ fault = "none"
          /\ rtinstance # "master" /\ tree_manager = nullptr)
          => /\ fault' = "assert"
             /\ call'.manager_calls = <<>>]_vars

\* C14: a CreateTreeManager or DestroyTreeManager call on a table of the
\* default instance changes nothing: it does not fault, it calls no method
\* of a manager, and a table without a manager stays without one.
C14_DefaultInstanceNoOp ==
    [][(call'.op \in {"CreateTreeManager", "DestroyTreeManager"}
          /\ fault = "none" /\ rtinstance = "master")
          => /\ fault' = "none"
             /\ tree_manager' = tree_manager
             /\ rtinstance' = rtinstance
             /\ call'.manager_calls = <<>>
             /\ (tree_manager = nullptr => tree_manager' = nullptr)]_vars

\* A DestroyTreeManager call returned in a table of the default instance,
\* which has no manager.
C14_Witness ==
    /\ LifecycleCall(call, "DestroyTreeManager")
    /\ rtinstance = "master"
    /\ tree_manager = nullptr
    /\ fault = "none"
    /\ call.manager_calls = <<>>

\* An Export step that returned and recorded the tree manager it used.
ExportStepped(c) == c.op = "Export" /\ "manager" \in DOMAIN c

C16_HashAgrees ==
    call.op = "Hash"
        => /\ call.entry = call.key
           /\ call.entry \in 0..(PartitionCount - 1)
           /\ call.key \in 0..(PartitionCount - 1)
           /\ \A p \in HashPrefixes :
                p.group = call.prefix.group => HashEntry(p) = call.key

\* Hash was called for a prefix whose source address and group address fall
\* in different partitions.
C16_Witness ==
    /\ call.op = "Hash"
    /\ call.entry = call.key
    /\ ModSizeT(to_ulong(call.prefix.source), PartitionCount) # call.key
    /\ call.key # 0

\* C17 as stated: AllocEntryStr called with a malformed string returns no
\* Route.
C17_MalformedRejected ==
    (call.op = "AllocEntryStr" /\ ~WellFormed(call.key_str)) => call.ret = nullptr

\* C18: a RouteReplicate call that inserted a path notified the partition if
\* and only if the path it inserted is the best path of the destination
\* route after the insertion, and a call that inserted no path did not
\* notify.
C18_NotifyIffBest ==
    ReplicateReturned(call)
        => /\ ~call.inserted => ~call.notified
           /\ call.inserted
                => /\ call.ret # NoRoute
                   /\ routes[call.ret] # NoRoute
                   /\ call.notified
                        <=> 1 \in ReplicasOf(routes[call.ret].paths, call)

\* A call inserted a path behind the best path of the route and did not
\* notify.
C18_Witness ==
    /\ ReplicateReturned(call)
    /\ call.inserted
    /\ ~call.notified
    /\ Len(routes[call.ret].paths) = 2
    /\ ReplicasOf(routes[call.ret].paths, call) = {2}

\* An Export call on a channel without the generic encoding.
TreeExport(c) == c.op = "Export" /\ ~IsEncodingBgp(c.ribout)

C20_ExportNeverFaults ==
    (TreeExport(call) /\ call.route.type = "NativeRoute"
       /\ ~NoLiveTreeManager(tree_manager)
       /\ (BestPath(call.route) = nullptr \/ BestPath(call.route).peer = NULL))
        => /\ fault = "none"
           /\ "ret" \in DOMAIN call
           /\ call.ret = FALSE
           /\ call.uinfo_slist = <<>>

====
